---------------------------- MODULE Spec2Model ----------------------------
(***************************************************************************)
(* MacroQA: the ImageJ/Jython scripts that walk an operator through the    *)
(* ACR MRI phantom quality-assurance tests.  Every script is a linear      *)
(* sequence of blocking operator prompts; an action below is the code a    *)
(* script runs between two prompts.  What the operator and the image       *)
(* supply (ROI means, line lengths, histograms, typed numbers, cancelled   *)
(* dialogs) is drawn with \E from small sets.                              *)
(*                                                                         *)
(* Python floats are modelled as exact rationals <<n, d>> (d > 0, lowest   *)
(* terms); str.format("{:.kf}") is modelled as rounding to k decimals.     *)
(***************************************************************************)
EXTENDS Integers, Sequences, FiniteSets, TLC

VARIABLES
    pc,       \* position of the running script (the prompt it blocks on)
    status,   \* "running", "done", "exit" (SystemExit) or "exception" (unhandled)
    log,      \* the ImageJ Log window: sequence of <<text, formatted number>>
    errors,   \* the IJ.error message boxes shown so far
    rt,       \* the ImageJ Results table: sequence of rows
    display,  \* display range <<min, max>> of the open image, or DefaultRange
    loc       \* the script's variables (name -> value)

vars == <<pc, status, log, errors, rt, display, loc>>

-----------------------------------------------------------------------------
(* Bounds of the model *)

MaxMeanStep == 2      \* ROI means are 0, 90, 100, ... 90 + 10*MaxMeanStep
MaxLen == 3           \* line lengths are 0..MaxLen and the spec's 40 and 60
MaxSlices == 12       \* stacks have 1..MaxSlices slices
MaxStdStep == 2       \* standard deviations are 0, 25, ... 25*MaxStdStep
MaxBarStep == 1       \* bar length differences are 0, 5, ... 5*MaxBarStep
MaxBins == 4          \* histograms have 1..MaxBins bins
MaxCount == 2         \* a bin counts 0..MaxCount pixels, or 100

-----------------------------------------------------------------------------
(* Python values *)

NaN == <<1, 0>>                               \* float('nan')
Undef == <<>>                                 \* a name not yet bound
ZeroDivisionError == <<0, 0>>                 \* what a / 0 raises
None == <<0>>                                 \* Python's None
NoNum == [text |-> "-"]                           \* log line without a number
DefaultRange == <<"default">>

RECURSIVE GCD(_, _)
GCD(a, b) == IF b = 0 THEN a ELSE GCD(b, a % b)

AbsInt(n) == IF n < 0 THEN -n ELSE n

\* A float as a rational in lowest terms with a positive denominator.
Rat(n, d) ==
    LET g == GCD(AbsInt(n), AbsInt(d))
        s == IF d < 0 THEN -1 ELSE 1
    IN  <<s * (n \div g), s * (d \div g)>>

F(n) == <<n, 1>>                              \* float(n)

\* a + b; a NaN operand gives NaN
PyAdd(a, b) == IF a = NaN \/ b = NaN THEN NaN ELSE Rat(a[1] * b[2] + b[1] * a[2], a[2] * b[2])
PySub(a, b) == Rat(a[1] * b[2] - b[1] * a[2], a[2] * b[2])
PyMul(a, b) == Rat(a[1] * b[1], a[2] * b[2])
\* a / b: Python raises ZeroDivisionError for a zero divisor, floats included.
PyDiv(a, b) == IF b[1] = 0 THEN ZeroDivisionError ELSE Rat(a[1] * b[2], a[2] * b[1])
PyAbs(a) == <<AbsInt(a[1]), a[2]>>
PyNeg(a) == <<-a[1], a[2]>>
PyGt(a, b) == a[1] * b[2] > b[1] * a[2]
PyIsZero(a) == a[1] = 0

RECURSIVE FracDigits(_, _, _)
\* the first k decimal digits of r/d (0 <= r < d), by long division
FracDigits(r, d, k) ==
    IF k = 0 THEN <<>> ELSE <<(r * 10) \div d>> \o FracDigits((r * 10) % d, d, k - 1)

RECURSIVE FracRem(_, _, _)
\* the remainder left after those k digits
FracRem(r, d, k) == IF k = 0 THEN r ELSE FracRem((r * 10) % d, d, k - 1)

RECURSIVE IncDigits(_)
\* add one unit in the last place; <<carry out, digits>>
IncDigits(s) ==
    IF s = <<>> THEN <<1, <<>>>>
    ELSE LET n == Len(s)
             front == SubSeq(s, 1, n - 1)
         IN  IF s[n] < 9 THEN <<0, Append(front, s[n] + 1)>>
             ELSE LET c == IncDigits(front) IN <<c[1], Append(c[2], 0)>>

\* "{:.kf}".format(x): sign, integer part and k decimals, rounded half to even.
PyFormat(x, k) ==
    LET a    == AbsInt(x[1])
        d    == x[2]
        ip   == a \div d
        digs == FracDigits(a % d, d, k)
        rem  == FracRem(a % d, d, k)
        last == IF k = 0 THEN ip ELSE digs[k]
        up   == 2 * rem > d \/ (2 * rem = d /\ last % 2 = 1)
        inc  == IncDigits(digs)
    IN  [neg  |-> x[1] < 0,
         int  |-> IF up THEN ip + inc[1] ELSE ip,
         frac |-> IF up THEN inc[2] ELSE digs]

\* IJ.log(text + number)
Line(text, num) == <<text, num>>
IJLog(l, text, num) == Append(l, Line(text, num))
Range(s) == {s[i] : i \in DOMAIN s}
Logged(text) == {log[i][2] : i \in {j \in DOMAIN log : log[j][1] = text}}

-----------------------------------------------------------------------------
(* What the image can show *)

MeanValues == {0} \cup {90 + 10 * k : k \in 0..MaxMeanStep}
SignedMeans == MeanValues \cup {-v : v \in MeanValues}

Halt(s) ==
    /\ status' = s
    /\ pc' = "halted"

Running(p) == status = "running" /\ pc = p

\* an image just opened: n slices, showing the first
Opened(n) == [nSlices |-> n, slice |-> 1]

-----------------------------------------------------------------------------
(* Image_intensity_uniformity.py *)

U_Vars == [imp |-> Undef, mean_ref |-> Undef, low_signal |-> Undef, high_signal |-> Undef, piu |-> Undef]

U_Init ==
    /\ pc = "open"
    /\ status = "running"
    /\ log = <<Line("---- Image Intensity Uniformity Test ----", NoNum)>>
    /\ errors = <<>>
    /\ rt = <<>>
    /\ display = DefaultRange
    /\ loc = U_Vars

\* open_dicom_file and the "No image open." check
U_Open ==
    /\ Running("open")
    /\ \E opened \in BOOLEAN, n \in 1..MaxSlices :
          IF opened
          THEN /\ loc' = [loc EXCEPT !.imp = Opened(n)]
               /\ pc' = "slice"
               /\ UNCHANGED <<status, errors>>
          ELSE /\ errors' = Append(errors, "No image open.")
               /\ Halt("exit")
               /\ UNCHANGED loc
    /\ UNCHANGED <<log, rt, display>>

\* Step 1: the slice is set for a stack of fewer than 7 or of exactly 11
\* slices; for every other stack the "more than 11 slices" dialog is shown
U_Slice ==
    /\ Running("slice")
    /\ LET n == loc.imp.nSlices
       IN  IF n < 7
           THEN /\ loc' = [loc EXCEPT !.imp.slice = 1]
                /\ log' = IJLog(IJLog(log, "Slice set to 1 (only {} slices in stack).",
                                      PyFormat(F(n), 0)),
                                "Window/Level adjusted to central values.", NoNum)
                /\ pc' = "calibration"
           ELSE IF n = 11
           THEN /\ loc' = [loc EXCEPT !.imp.slice = 7]
                /\ log' = IJLog(IJLog(log, "Slice set to 7.", NoNum),
                                "Window/Level adjusted to central values.", NoNum)
                /\ pc' = "calibration"
           ELSE /\ pc' = "slice_number"
                /\ UNCHANGED <<log, loc>>
    /\ UNCHANGED <<status, errors, rt, display>>

\* Step 1, after the "more than 11 slices" dialog: the operator types the
\* slice number (IJ.getNumber; a cancelled prompt gives a number below 1)
U_SliceNumber ==
    /\ Running("slice_number")
    /\ \E slice_num \in {0, 7, 14} :
          IF slice_num < 1 \/ slice_num > loc.imp.nSlices
          THEN /\ errors' = Append(errors, "Invalid slice number.")
               /\ Halt("exit")
               /\ UNCHANGED <<log, loc>>
          ELSE /\ loc' = [loc EXCEPT !.imp.slice = slice_num]
               /\ log' = IJLog(IJLog(log, "Slice set to ", PyFormat(F(slice_num), 0)),
                               "Window/Level adjusted to central values.", NoNum)
               /\ pc' = "calibration"
               /\ UNCHANGED <<status, errors>>
    /\ UNCHANGED <<rt, display>>

\* Steps 2-3: calibration, then the large ROI is placed for the operator
U_Calibrate ==
    /\ Running("calibration")
    /\ \E outcome \in {"calibrated", "cancelled", "invalid"} :
          CASE outcome = "calibrated" ->
                 /\ pc' = "large_roi"
                 /\ UNCHANGED <<status, log, errors>>
            [] outcome = "cancelled" ->
                 /\ log' = IJLog(log, "Cancelled by user.", NoNum)
                 /\ Halt("exit")
                 /\ UNCHANGED errors
            [] outcome = "invalid" ->
                 /\ errors' = Append(errors, "Invalid pixel values")
                 /\ Halt("exit")
                 /\ UNCHANGED log
    /\ UNCHANGED <<rt, display, loc>>

\* the large ROI is positioned: "Show All" reminder, reference mean, Step 4
U_LargeRoi ==
    /\ Running("large_roi")
    /\ \E cancelled \in BOOLEAN, v \in SignedMeans :
          IF cancelled
          THEN /\ log' = IJLog(log, "Cancelled.", NoNum)
               /\ Halt("exit")
               /\ UNCHANGED <<display, loc>>
          ELSE /\ loc' = [loc EXCEPT !.mean_ref = F(v)]
               /\ log' = IJLog(log, "Initial mean (large ROI): ", PyFormat(F(v), 3))
               /\ display' = "manual"
               /\ pc' = "low_signal"
               /\ UNCHANGED status
    /\ UNCHANGED <<errors, rt>>

\* the small ROI sits on the low-signal region: measure it
U_LowSignal ==
    /\ Running("low_signal")
    /\ \E v \in SignedMeans :
          /\ loc' = [loc EXCEPT !.low_signal = F(v)]
          /\ log' = IJLog(log, "Low signal mean: ", PyFormat(F(v), 3))
    /\ pc' = "high_signal"
    /\ UNCHANGED <<status, errors, rt, display>>

\* a guard that tests the high mean alone
PiuUndefinedHighOnly(high, low) == PyIsZero(high)

\* Step 6, the guard: high + low == 0
PiuUndefined(high, low) == PyIsZero(PyAdd(high, low))

\* the ratio without its complement: 100 * (high - low) / (high + low)
PiuRatioOnly(high, low) ==
    LET q == PyDiv(PySub(high, low), PyAdd(high, low))
    IN  IF q = ZeroDivisionError THEN ZeroDivisionError
        ELSE PyMul(F(100), q)

\* Step 6, the formula; ZeroDivisionError when the division raises
Piu(high, low) ==
    LET q == PyDiv(PySub(high, low), PyAdd(high, low))
    IN  IF q = ZeroDivisionError THEN ZeroDivisionError
        ELSE PyMul(F(100), PySub(F(1), q))

\* the small ROI sits on the high-signal region: measure it, Step 6
U_HighSignal ==
    /\ Running("high_signal")
    /\ \E v \in SignedMeans :
          LET high == F(v)
              low  == loc.low_signal
              l1   == IJLog(log, "High signal mean: ", PyFormat(high, 3))
          IN  IF PiuUndefined(high, low)
              THEN /\ log' = IJLog(l1, "Error: high + low == 0, unable to calculate PIU.", NoNum)
                   /\ loc' = [loc EXCEPT !.high_signal = high]
                   /\ pc' = "reminder"
                   /\ UNCHANGED status
              ELSE IF Piu(high, low) = ZeroDivisionError
              THEN /\ log' = l1
                   /\ loc' = [loc EXCEPT !.high_signal = high]
                   /\ Halt("exception")
              ELSE /\ log' = IJLog(IJLog(l1, "Calculated PIU: ", PyFormat(Piu(high, low), 2)),
                                   "", PyFormat(Piu(high, low), 2))
                   /\ loc' = [loc EXCEPT !.high_signal = high, !.piu = Piu(high, low)]
                   /\ pc' = "reminder"
                   /\ UNCHANGED status
    /\ UNCHANGED <<errors, rt, display>>

\* the closing reminder and the "completed" dialog
U_Finish ==
    /\ Running("reminder")
    /\ \E cancelled \in BOOLEAN :
          IF cancelled
          THEN /\ log' = IJLog(log, "Cancelled.", NoNum)
               /\ Halt("exit")
               /\ UNCHANGED rt
          ELSE /\ log' = IJLog(IJLog(log, "---- End of the Image Intensity Uniformity Test ----", NoNum), "", NoNum)
               /\ rt' = <<>>
               /\ Halt("done")
    /\ UNCHANGED <<errors, display, loc>>

U_Next == U_Open \/ U_Slice \/ U_SliceNumber \/ U_Calibrate \/ U_LargeRoi \/ U_LowSignal \/ U_HighSignal \/ U_Finish

SpecUniformity == U_Init /\ [][U_Next]_vars

\* C1: once the high-signal mean is measured, a zero sum high + low has put
\* the "unable to calculate PIU" line in the log and no PIU number, and a
\* non-zero sum has logged 100 * (1 - (high - low)/(high + low)) ("{:.2f}").
C1_PiuOrError ==
    loc.high_signal # Undef =>
        LET h == loc.high_signal
            l == loc.low_signal
        IN  IF PyIsZero(PyAdd(h, l))
            THEN /\ status # "exception"
                 /\ Line("Error: high + low == 0, unable to calculate PIU.", NoNum) \in Range(log)
                 /\ Logged("Calculated PIU: ") = {}
                 /\ Logged("") \subseteq {NoNum}
            ELSE /\ status # "exception"
                 /\ Line("Error: high + low == 0, unable to calculate PIU.", NoNum) \notin Range(log)
                 /\ LET v == PyFormat(PyMul(F(100), PySub(F(1), PyDiv(PySub(h, l), PyAdd(h, l)))), 2)
                    IN  Logged("Calculated PIU: ") = {v} /\ v \in Logged("")

\* C1 witness: high = 90 and low = -90 were measured and the error is logged
C1_Witness ==
    /\ loc.high_signal = F(90)
    /\ loc.low_signal = F(-90)
    /\ pc = "reminder"
    /\ Line("Error: high + low == 0, unable to calculate PIU.", NoNum) \in Range(log)

-----------------------------------------------------------------------------
(* Percentage_signal_ghosting.py *)

G_Vars == [imp |-> Undef, mean_ref |-> Undef, right |-> Undef, btm |-> Undef, top |-> Undef,
           left |-> Undef, GR |-> Undef]

G_Init ==
    /\ pc = "open"
    /\ status = "running"
    /\ log = <<Line("---- Start of Percentage Signal Ghosting Test ----", NoNum)>>
    /\ errors = <<>>
    /\ rt = <<>>
    /\ display = DefaultRange
    /\ loc = G_Vars

\* open_dicom_file and the "No image open." check
G_Open ==
    /\ Running("open")
    /\ \E opened \in BOOLEAN, n \in 1..MaxSlices :
          IF opened
          THEN /\ loc' = [loc EXCEPT !.imp = Opened(n)]
               /\ pc' = "slice"
               /\ UNCHANGED <<status, errors>>
          ELSE /\ errors' = Append(errors, "No image open.")
               /\ Halt("exit")
               /\ UNCHANGED loc
    /\ UNCHANGED <<log, rt, display>>

\* Step 1: the slice is set for a stack of fewer than 7 or of exactly 11
\* slices; for every other stack the "more than 11 slices" dialog is shown
G_Slice ==
    /\ Running("slice")
    /\ LET n == loc.imp.nSlices
       IN  IF n < 7
           THEN /\ loc' = [loc EXCEPT !.imp.slice = 1]
                /\ log' = IJLog(IJLog(log, "Slice set to 1 (only {} slices in stack).",
                                      PyFormat(F(n), 0)),
                                "Window/Level adjusted to central values.", NoNum)
                /\ pc' = "calibration"
           ELSE IF n = 11
           THEN /\ loc' = [loc EXCEPT !.imp.slice = 7]
                /\ log' = IJLog(IJLog(log, "Slice set to 7.", NoNum),
                                "Window/Level adjusted to central values.", NoNum)
                /\ pc' = "calibration"
           ELSE /\ pc' = "slice_number"
                /\ UNCHANGED <<log, loc>>
    /\ UNCHANGED <<status, errors, rt, display>>

\* Step 1, after the "more than 11 slices" dialog: the operator types the
\* slice number (IJ.getNumber; a cancelled prompt gives a number below 1)
G_SliceNumber ==
    /\ Running("slice_number")
    /\ \E slice_num \in {0, 7, 14} :
          IF slice_num < 1 \/ slice_num > loc.imp.nSlices
          THEN /\ errors' = Append(errors, "Invalid slice number.")
               /\ Halt("exit")
               /\ UNCHANGED <<log, loc>>
          ELSE /\ loc' = [loc EXCEPT !.imp.slice = slice_num]
               /\ log' = IJLog(IJLog(log, "Slice set to ", PyFormat(F(slice_num), 0)),
                               "Window/Level adjusted to central values.", NoNum)
               /\ pc' = "calibration"
               /\ UNCHANGED <<status, errors>>
    /\ UNCHANGED <<rt, display>>

\* Step 2 and 2b: calibration, then the large ROI is placed for the operator
G_Calibrate ==
    /\ Running("calibration")
    /\ \E outcome \in {"calibrated", "cancelled", "invalid"} :
          CASE outcome = "calibrated" ->
                 /\ pc' = "large_roi"
                 /\ UNCHANGED <<status, log, errors>>
            [] outcome = "cancelled" ->
                 /\ log' = IJLog(log, "Cancelled by user.", NoNum)
                 /\ Halt("exit")
                 /\ UNCHANGED errors
            [] outcome = "invalid" ->
                 /\ errors' = Append(errors, "Invalid pixel values.")
                 /\ Halt("exit")
                 /\ UNCHANGED log
    /\ UNCHANGED <<rt, display, loc>>

\* the large ROI is positioned: central mean, Step 3 window l = 5, w = 50
G_LargeRoi ==
    /\ Running("large_roi")
    /\ \E v \in MeanValues :
          /\ loc' = [loc EXCEPT !.mean_ref = F(v)]
          /\ log' = IJLog(log, "Initial mean (large ROI): ", PyFormat(F(v), 3))
    /\ display' = <<PySub(F(5), PyDiv(F(50), F(2))), PyAdd(F(5), PyDiv(F(50), F(2)))>>
    /\ pc' = "Right ROI"
    /\ UNCHANGED <<status, errors, rt>>

\* Steps 4-7: the order of the four prompts, <<prompt title, variable, next>>
G_Rois == << <<"Right ROI", "right", "Bottom ROI">>,
             <<"Bottom ROI", "btm", "Top ROI">>,
             <<"Top ROI", "top", "Left ROI">> >>

\* create_adjust_roi: the operator has placed the ROI titled `title`
G_Measured(title, v) == IJLog(log, title \o ": ", PyFormat(F(v), 3))

\* Steps 4-6: right, bottom and top ROI
G_Roi ==
    /\ \E i \in DOMAIN G_Rois, v \in MeanValues :
          /\ Running(G_Rois[i][1])
          /\ loc' = [loc EXCEPT ![G_Rois[i][2]] = F(v)]
          /\ log' = G_Measured(G_Rois[i][1], v)
          /\ pc' = G_Rois[i][3]
    /\ UNCHANGED <<status, errors, rt, display>>

\* a guard that never fires
GhostUndefinedNever(mean_ref) == FALSE

\* Step 8, the guard: (mean_ref) == 0
GhostUndefined(mean_ref) == PyIsZero(mean_ref)

\* the ratio with the vertical pair summed
GhostingRatioSum(top, btm, left, right, mean_ref) ==
    LET q == PyDiv(PyMul(PySub(PyAdd(top, btm), PyAdd(left, right)), F(100)),
                   PyMul(F(2), mean_ref))
    IN  IF q = ZeroDivisionError THEN ZeroDivisionError ELSE PyAbs(q)

\* Step 8, the formula; ZeroDivisionError when the division raises
GhostingRatio(top, btm, left, right, mean_ref) ==
    LET q == PyDiv(PyMul(PySub(PySub(top, btm), PyAdd(left, right)), F(100)),
                   PyMul(F(2), mean_ref))
    IN  IF q = ZeroDivisionError THEN ZeroDivisionError ELSE PyAbs(q)

\* Step 7 and Step 8: left ROI, then the ghosting ratio
G_Left ==
    /\ Running("Left ROI")
    /\ \E v \in MeanValues :
          LET l1 == G_Measured("Left ROI", v)
              gr == GhostingRatio(loc.top, loc.btm, F(v), loc.right, loc.mean_ref)
          IN  IF GhostUndefined(loc.mean_ref)
              THEN /\ log' = IJLog(l1, "Error: Mean Pixel Value in the Central ROI == 0, unable to calculate GR.", NoNum)
                   /\ loc' = [loc EXCEPT !.left = F(v)]
                   /\ pc' = "reminder"
                   /\ UNCHANGED status
              ELSE IF gr = ZeroDivisionError
              THEN /\ log' = l1
                   /\ loc' = [loc EXCEPT !.left = F(v)]
                   /\ Halt("exception")
              ELSE /\ log' = IJLog(IJLog(l1, "Ghosting Ratio calculated: ", PyFormat(gr, 10)),
                                   "", PyFormat(gr, 10))
                   /\ loc' = [loc EXCEPT !.left = F(v), !.GR = gr]
                   /\ pc' = "reminder"
                   /\ UNCHANGED status
    /\ UNCHANGED <<errors, rt, display>>

\* the closing reminder and the "completed" dialog
G_Finish ==
    /\ Running("reminder")
    /\ \E cancelled \in BOOLEAN :
          IF cancelled
          THEN /\ log' = IJLog(log, "Cancelled.", NoNum)
               /\ Halt("exit")
               /\ UNCHANGED rt
          ELSE /\ log' = IJLog(IJLog(log, "---- End of Percentage Signal Ghosting Test ----", NoNum), "", NoNum)
               /\ rt' = <<>>
               /\ Halt("done")
    /\ UNCHANGED <<errors, display, loc>>

G_Next == G_Open \/ G_Slice \/ G_SliceNumber \/ G_Calibrate \/ G_LargeRoi \/ G_Roi \/ G_Left \/ G_Finish

SpecGhosting == G_Init /\ [][G_Next]_vars

\* C2: once the last ROI is measured with a central mean of 0, the log holds
\* the "unable to calculate GR" line and no ratio, and nothing was divided by
\* the zero mean (no ZeroDivisionError).
C2_GhostZeroCentral ==
    (loc.left # Undef /\ PyIsZero(loc.mean_ref)) =>
        /\ status # "exception"
        /\ Line("Error: Mean Pixel Value in the Central ROI == 0, unable to calculate GR.", NoNum) \in Range(log)
        /\ Logged("Ghosting Ratio calculated: ") = {}
        /\ Logged("") \subseteq {NoNum}

\* C2 witness: all four ROIs measured around a central mean of 0
C2_Witness ==
    /\ pc = "reminder"
    /\ loc.mean_ref = F(0)
    /\ loc.top = F(110)
    /\ Line("Error: Mean Pixel Value in the Central ROI == 0, unable to calculate GR.", NoNum) \in Range(log)

\* the mean logged at the prompt titled `title`, read back from the log
MeasuredAt(title) == CHOOSE x \in Logged(title \o ": ") : TRUE
Num(f) == Rat((IF f.neg THEN -1 ELSE 1) * (f.int * 1000 + f.frac[1] * 100 + f.frac[2] * 10 + f.frac[3]), 1000)

\* C5: with a non-zero central mean the logged GR is
\* |((top - bottom) - (left + right)) * 100 / (2 * central_mean)| over the
\* means logged at the prompts Top, Bottom, Left and Right ROI and the mean
\* of the large ROI ("{:.10f}").
C5_GhostFormula ==
    (loc.left # Undef /\ ~PyIsZero(loc.mean_ref)) =>
        LET top     == Num(MeasuredAt("Top ROI"))
            bottom  == Num(MeasuredAt("Bottom ROI"))
            left    == Num(MeasuredAt("Left ROI"))
            right   == Num(MeasuredAt("Right ROI"))
            central == Num(CHOOSE x \in Logged("Initial mean (large ROI): ") : TRUE)
            gr      == PyAbs(PyDiv(PyMul(PySub(PySub(top, bottom), PyAdd(left, right)), F(100)),
                                   PyMul(F(2), central)))
        IN  /\ status # "exception"
            /\ Logged("Ghosting Ratio calculated: ") = {PyFormat(gr, 10)}
            /\ PyFormat(gr, 10) \in Logged("")
            /\ \A t \in {"Top ROI: ", "Bottom ROI: ", "Left ROI: ", "Right ROI: "} :
                   Cardinality(Logged(t)) = 1

\* C5 witness: central 100, top 110, bottom 90, left 100, right 100 logs 90.0
C5_Witness ==
    /\ loc.mean_ref = F(100)
    /\ loc.top = F(110) /\ loc.btm = F(90) /\ loc.left = F(100) /\ loc.right = F(100)
    /\ Logged("Ghosting Ratio calculated: ") =
           {[neg |-> FALSE, int |-> 90, frac |-> <<0, 0, 0, 0, 0, 0, 0, 0, 0, 0>>]}

-----------------------------------------------------------------------------
(* Signal_to_noise_ratio.py *)

SliceCounts == 1..MaxSlices
StdValues == {25 * k : k \in 0..MaxStdStep}
SnrMeans == MeanValues \cup {500}
CalUnits == {"mm", "cm", "pixel"}
PixelSizes == {0, 1}                 \* cal.pixelWidth / pixelHeight, typed sizes

S_Vars == [impA |-> Undef, impB |-> Undef, result |-> Undef,
           pixel_width_cm |-> Undef, pixel_height_cm |-> Undef,
           mean_ref |-> Undef, std_ref |-> Undef, SNR |-> Undef]

S_Init ==
    /\ pc = "open_A"
    /\ status = "running"
    /\ log = <<Line("---- Signal to Noise Ratio Test ----", NoNum)>>
    /\ errors = <<>>
    /\ rt = <<>>
    /\ display = DefaultRange
    /\ loc = S_Vars

\* "Set both images to slice 7 for consistency"
SliceSeven(imp) == [imp EXCEPT !.slice = IF imp.nSlices < 7 THEN 1 ELSE 7]

\* subtract_two_images_via_calculator, image A: the display calls run on impA
\* before it is tested for None, so a cancelled dialog ends in an exception
S_OpenA ==
    /\ Running("open_A")
    /\ \E opened \in BOOLEAN, n \in SliceCounts :
          IF opened
          THEN /\ loc' = [loc EXCEPT !.impA = Opened(n)]
               /\ pc' = "open_B"
               /\ UNCHANGED status
          ELSE /\ loc' = [loc EXCEPT !.impA = None]
               /\ Halt("exception")
    /\ UNCHANGED <<log, errors, rt, display>>

\* a result check that looks at image A alone
ProcessingFailedImageA(impA, result) == None = impA

\* "if impA is None or result is None"
ProcessingFailed(impA, result) == None = impA \/ None = result

\* subtract_two_images_via_calculator, image B, A - B, and main's result check
S_OpenB ==
    /\ Running("open_B")
    /\ \E opened \in BOOLEAN, n \in SliceCounts, subtracted \in BOOLEAN :
          IF ~opened
          THEN \* "return" gives None, which main cannot unpack: TypeError
               /\ loc' = [loc EXCEPT !.impB = None]
               /\ Halt("exception")
               /\ UNCHANGED <<log, errors>>
          ELSE LET result == IF subtracted THEN "Subtraction (A - B)" ELSE None
                   l == [loc EXCEPT !.impA = SliceSeven(loc.impA),
                                    !.impB = SliceSeven(Opened(n)), !.result = result]
                   e == IF subtracted THEN errors
                        ELSE Append(errors, "Fail to subtract (Image Calculator).")
               IN  /\ loc' = l
                   /\ log' = IF subtracted THEN IJLog(log, "Subtraction finished: A - B", NoNum)
                             ELSE log
                   /\ IF ProcessingFailed(l.impA, result)
                      THEN /\ errors' = Append(e, "Image processing failed.")
                           /\ Halt("exit")
                      ELSE /\ errors' = e
                           /\ pc' = "calibration"
                           /\ UNCHANGED status
    /\ UNCHANGED <<rt, display>>

\* area_to_radius_pixels raises when the pixel area is zero (division) or
\* negative (math.sqrt of a negative number)
AreaToRadiusRaises(area_cm2, px_w_cm, px_h_cm) ==
    LET pixel_area_cm2 == PyMul(px_w_cm, px_h_cm)
    IN  PyIsZero(pixel_area_cm2) \/ PyGt(F(0), pixel_area_cm2)

\* Step 2 and 2b: calibration from the image or typed by the operator, then
\* the 200 cm^2 ROI
S_Calibrate ==
    /\ Running("calibration")
    /\ \E unit \in CalUnits, pw \in PixelSizes, ph \in PixelSizes, cancelled \in BOOLEAN :
          LET manual == unit \notin {"mm", "cm"}
              w_cm == IF unit = "cm" THEN F(pw) ELSE PyDiv(F(pw), F(10))
              h_cm == IF unit = "cm" THEN F(ph) ELSE PyDiv(F(ph), F(10))
          IN  IF manual /\ cancelled
              THEN /\ log' = IJLog(log, "Cancelled by the user.", NoNum)
                   /\ Halt("exit")
                   /\ UNCHANGED <<errors, loc>>
              ELSE IF manual /\ (pw <= 0 \/ ph <= 0)
              THEN /\ errors' = Append(errors, "Invalid pixel value.")
                   /\ Halt("exit")
                   /\ UNCHANGED <<log, loc>>
              ELSE /\ loc' = [loc EXCEPT !.pixel_width_cm = w_cm, !.pixel_height_cm = h_cm]
                   /\ log' = IJLog(log, "Calibration used (cm/pixel): ", NoNum)
                   /\ UNCHANGED errors
                   /\ IF AreaToRadiusRaises(F(200), w_cm, h_cm)
                      THEN Halt("exception")
                      ELSE pc' = "set_roi" /\ UNCHANGED status
    /\ UNCHANGED <<rt, display>>

\* "Calculation of SNR": SNR = mean_ref / std_ref
Snr(mean_ref, std_ref) == PyDiv(mean_ref, std_ref)

\* the ROI is positioned: closing reminder, then mean, deviation and SNR
S_Measure ==
    /\ Running("set_roi")
    /\ \E cancelled \in BOOLEAN, m \in SnrMeans, sd \in StdValues :
          IF cancelled
          THEN /\ log' = IJLog(log, "Cancelled.", NoNum)
               /\ Halt("exit")
               /\ UNCHANGED loc
          ELSE /\ UNCHANGED log
               /\ IF Snr(F(m), F(sd)) = ZeroDivisionError
                  THEN /\ loc' = [loc EXCEPT !.mean_ref = F(m), !.std_ref = F(sd)]
                       /\ Halt("exception")
                  ELSE /\ loc' = [loc EXCEPT !.mean_ref = F(m), !.std_ref = F(sd),
                                             !.SNR = Snr(F(m), F(sd))]
                       /\ pc' = "finished"
                       /\ UNCHANGED status
    /\ UNCHANGED <<errors, rt, display>>

\* the "SNR test finished" dialog is acknowledged: "Display Final Results"
S_Finish ==
    /\ Running("finished")
    /\ log' = log \o <<Line("Mean: ", PyFormat(loc.mean_ref, 3)),
                       Line("Standard Deviation: ", PyFormat(loc.std_ref, 3)),
                       Line("SNR: ", PyFormat(loc.SNR, 3)),
                       Line("---- End of the SNR test ----", NoNum),
                       Line("", NoNum)>>
    /\ rt' = <<>>
    /\ Halt("done")
    /\ UNCHANGED <<errors, display, loc>>

S_Next == S_OpenA \/ S_OpenB \/ S_Calibrate \/ S_Measure \/ S_Finish

SpecSNR == S_Init /\ [][S_Next]_vars

\* C3 (as claimed): a zero standard deviation of the difference image ends
\* without an unhandled exception and without a numeric SNR in the log.
C3_SnrZeroStdHandled ==
    (loc.std_ref # Undef /\ PyIsZero(loc.std_ref)) =>
        /\ status # "exception"
        /\ Logged("SNR: ") = {}

-----------------------------------------------------------------------------
(* Slice_thickness_accuracy.py *)

LineLengths == (0..MaxLen) \cup {40, 60}
RoiTypes == {"none", "rectangle", "line"}      \* imp.getRoi(): None or its type

T_Vars == [mean1 |-> Undef, mean2 |-> Undef, length3 |-> Undef, length4 |-> Undef,
           results |-> Undef]

T_Init ==
    /\ pc = "open"
    /\ status = "running"
    /\ log = <<Line("---- Slice Thickness Accuracy Test ----", NoNum)>>
    /\ errors = <<>>
    /\ rt = <<>>
    /\ display = DefaultRange
    /\ loc = T_Vars

\* Step 1: open_dicom_file and the "No image open." check
T_Open ==
    /\ Running("open")
    /\ \E opened \in BOOLEAN :
          IF opened
          THEN /\ pc' = "slice"
               /\ UNCHANGED <<status, errors>>
          ELSE /\ errors' = Append(errors, "No image open.")
               /\ Halt("exit")
    /\ UNCHANGED <<log, rt, display, loc>>

\* "Go to first slice", "Clear Results", Step 2: window = 300, level = 200
T_Slice ==
    /\ Running("slice")
    /\ \E valid \in BOOLEAN :
          IF valid
          THEN /\ pc' = "ROI 1"
               /\ rt' = <<>>
               /\ display' = <<F(200 - 300 \div 2), F(200 + 300 \div 2)>>
               /\ UNCHANGED <<status, errors>>
          ELSE /\ errors' = Append(errors, "Invalid slice number.")
               /\ Halt("exit")
               /\ UNCHANGED <<rt, display>>
    /\ UNCHANGED <<log, loc>>

\* IJ.run("Measure"): one more row in the Results table
Measure(column, value) == Append(rt, <<column, value>>)

\* Step 3, ROI 1: a rectangle over the background
T_Roi1 ==
    /\ Running("ROI 1")
    /\ \E roi \in RoiTypes, v \in MeanValues :
          IF roi # "rectangle"
          THEN /\ errors' = Append(errors, "ROI 1 has an invalid shape or was not selected.")
               /\ Halt("exit")
               /\ UNCHANGED <<rt, loc>>
          ELSE /\ rt' = Measure("Mean", F(v))
               /\ loc' = [loc EXCEPT !.mean1 = F(v)]
               /\ pc' = "ROI 2"
               /\ UNCHANGED <<status, errors>>
    /\ UNCHANGED <<log, display>>

\* Step 4: the refined display range from the two background means
RefinedRange(mean1, mean2) ==
    LET level  == PyDiv(PyAdd(mean1, mean2), F(2))
        window == F(10)
    IN  <<PyDiv(PySub(level, window), F(2)), PyDiv(PyAdd(level, window), F(2))>>

\* Step 3, ROI 2, and Step 4
T_Roi2 ==
    /\ Running("ROI 2")
    /\ \E roi \in RoiTypes, v \in MeanValues :
          IF roi # "rectangle"
          THEN /\ errors' = Append(errors, "ROI 2 has an invalid shape or was not selected.")
               /\ Halt("exit")
               /\ UNCHANGED <<rt, loc, display>>
          ELSE /\ rt' = Measure("Mean", F(v))
               /\ loc' = [loc EXCEPT !.mean2 = F(v)]
               /\ display' = RefinedRange(loc.mean1, F(v))
               /\ pc' = "ROI 3"
               /\ UNCHANGED <<status, errors>>
    /\ UNCHANGED log

\* Step 5, ROI 3: a straight line along the first inclined plane
T_Roi3 ==
    /\ Running("ROI 3")
    /\ \E roi \in RoiTypes, len \in LineLengths :
          IF roi # "line"
          THEN /\ errors' = Append(errors, "ROI 3 has an invalid shape or was not selected.")
               /\ Halt("exit")
               /\ UNCHANGED <<rt, loc>>
          ELSE /\ rt' = Measure("Length", F(len))
               /\ loc' = [loc EXCEPT !.length3 = F(len)]
               /\ pc' = "ROI 4"
               /\ UNCHANGED <<status, errors>>
    /\ UNCHANGED <<log, display>>

\* the thickness with the factor 0.2 left out
SliceThicknessNoFactor(length3, length4) ==
    PyDiv(PyMul(length3, length4), PyAdd(length3, length4))

\* Step 6: results = 0.2 * (length3 * length4) / (length3 + length4)
SliceThickness(length3, length4) ==
    PyDiv(PyMul(Rat(2, 10), PyMul(length3, length4)), PyAdd(length3, length4))

\* Step 5, ROI 4, Step 6 and Step 7: the result goes to the Results table
T_Roi4 ==
    /\ Running("ROI 4")
    /\ \E roi \in RoiTypes, len \in LineLengths :
          IF roi # "line"
          THEN /\ errors' = Append(errors, "ROI 4 has an invalid shape or was not selected.")
               /\ Halt("exit")
               /\ UNCHANGED <<rt, loc>>
          ELSE LET results == SliceThickness(loc.length3, F(len))
               IN  IF results = ZeroDivisionError
                   THEN /\ rt' = Measure("Length", F(len))
                        /\ loc' = [loc EXCEPT !.length4 = F(len)]
                        /\ Halt("exception")
                        /\ UNCHANGED errors
                   ELSE /\ rt' = Append(Measure("Length", F(len)), <<"Final result", results>>)
                        /\ loc' = [loc EXCEPT !.length4 = F(len), !.results = results]
                        /\ pc' = "completed"
                        /\ UNCHANGED <<status, errors>>
    /\ UNCHANGED <<log, display>>

\* the "completed" dialog is acknowledged: clean up and log the thickness
T_Finish ==
    /\ Running("completed")
    /\ rt' = <<>>
    /\ log' = log \o <<Line("Slice thickness: ", PyFormat(loc.results, 3)),
                       Line("", PyFormat(loc.results, 3)),
                       Line("---- End of the Slice Thickness Accuracy Test ----", NoNum),
                       Line("", NoNum)>>
    /\ Halt("done")
    /\ UNCHANGED <<errors, display, loc>>

T_Next == T_Open \/ T_Slice \/ T_Roi1 \/ T_Roi2 \/ T_Roi3 \/ T_Roi4 \/ T_Finish

SpecThickness == T_Init /\ [][T_Next]_vars

\* C4 (as claimed): two lines of zero total length end without an unhandled
\* exception and without a numeric thickness in the Results table or the log.
C4_ThicknessZeroHandled ==
    (loc.length4 # Undef /\ PyIsZero(PyAdd(loc.length3, loc.length4))) =>
        /\ status # "exception"
        /\ \A i \in DOMAIN rt : rt[i][1] # "Final result"
        /\ Logged("Slice thickness: ") = {}

\* C6: with length3 + length4 # 0 the result is
\* 0.2 * (length3 * length4) / (length3 + length4); it is the "Final result"
\* row of the Results table while the "completed" dialog is up, and the
\* number in the log ("{:.3f}") once the script has ended.
C6_ThicknessFormula ==
    (loc.length4 # Undef /\ ~PyIsZero(PyAdd(loc.length3, loc.length4))) =>
        LET l3 == loc.length3
            l4 == loc.length4
            t  == Rat(2 * l3[1] * l4[1] * (l3[2] * l4[2]),
                      10 * l3[2] * l4[2] * (l3[1] * l4[2] + l4[1] * l3[2]))
        IN  /\ status # "exception"
            /\ loc.results = t
            /\ pc = "completed" => rt[Len(rt)] = <<"Final result", t>>
            /\ status = "done" =>
                   /\ Logged("Slice thickness: ") = {PyFormat(t, 3)}
                   /\ PyFormat(t, 3) \in Logged("")

\* C6 witness: lines of 40 and 60 were measured and 4.800 is in the log
C6_Witness ==
    /\ status = "done"
    /\ loc.length3 = F(40) /\ loc.length4 = F(60)
    /\ Logged("Slice thickness: ") = {[neg |-> FALSE, int |-> 4, frac |-> <<8, 0, 0>>]}

-----------------------------------------------------------------------------
(* Slice_position_accuracy.py *)

BarLengths == {5 * k : k \in 0..MaxBarStep}
PositionStacks == (MaxSlices - 2)..MaxSlices                         \* getNSlices
CentroidXs == {F(50), F(127), F(128), F(200), F(254), F(255), NaN}   \* column "X"
PixelWidths == {F(0), F(1), F(2)}                                    \* cal.pixelWidth
\* what the operator can leave on the image: <<ROI type, line length, X of
\* the Results row, middle of the line's end points>>
DrawnRois ==
    {<<r, 0, NaN, F(0)>> : r \in RoiTypes \ {"line"}}
        \cup {<<"line", len, x, F(0)>> : len \in BarLengths, x \in CentroidXs \ {NaN}}
        \cup {<<"line", len, NaN, m>> : len \in BarLengths, m \in {F(50), F(200)}}
ImageRanges == {<<0, 900>>, <<0, 2000>>, <<1000, 1003>>}             \* stats.min, stats.max

P_Vars == [imp |-> Undef, medida1 |-> Undef, medida2 |-> Undef,
           roi |-> Undef, length |-> Undef, x_px |-> Undef]

P_Init ==
    /\ pc = "open"
    /\ status = "running"
    /\ log = <<Line("---- Slice Position Accuracy Test ----", NoNum)>>
    /\ errors = <<>>
    /\ rt = <<>>
    /\ display = DefaultRange
    /\ loc = P_Vars

\* an image as the position test sees it
P_Image(n, pw) == [nSlices |-> n, slice |-> 1, pixelWidth |-> pw]

\* open_dicom_file and the "No image opened." check
P_Open ==
    /\ Running("open")
    /\ \E opened \in BOOLEAN, n \in PositionStacks, pw \in PixelWidths :
          IF opened
          THEN /\ loc' = [loc EXCEPT !.imp = P_Image(n, pw)]
               /\ pc' = "slice 1"
               /\ UNCHANGED <<status, errors>>
          ELSE /\ errors' = Append(errors, "No image opened.")
               /\ Halt("exit")
               /\ UNCHANGED loc
    /\ UNCHANGED <<log, rt, display>>

Max2(a, b) == IF a > b THEN a ELSE b
Min2(a, b) == IF a < b THEN a ELSE b

\* adjust_window_level: the range level -+ window / 2 clipped to the image
AdjustWindowLevel(img_min, img_max, level, window) ==
    <<Max2(img_min, level - window \div 2), Min2(img_max, level + window \div 2)>>

\* the slice typed by the operator is refused
InvalidSlice(slice_num, n) == slice_num < 1 \/ slice_num > n

\* "Process First Slice": slice 1 (or the typed one), window 10 / level 1000
P_Slice1 ==
    /\ Running("slice 1")
    /\ \E slice_num \in {0, 1, loc.imp.nSlices, loc.imp.nSlices + 1}, r \in ImageRanges :
          LET n == loc.imp.nSlices
          IN  IF n > 11 /\ InvalidSlice(slice_num, n)
              THEN /\ errors' = Append(errors, "Invalid slice number.")
                   /\ Halt("exit")
                   /\ UNCHANGED <<log, display, loc>>
              ELSE /\ loc' = [loc EXCEPT !.imp.slice = IF n <= 11 THEN 1 ELSE slice_num]
                   /\ log' = IF n <= 11 THEN log ELSE IJLog(log, "Slice set to ", PyFormat(F(slice_num), 0))
                   /\ display' = AdjustWindowLevel(r[1], r[2], 1000, 10)
                   /\ pc' = "measure 1"
                   /\ UNCHANGED <<status, errors>>
    /\ UNCHANGED rt

\* get_measurement: x_px = x_val / pw, pw = 1.0 for a missing pixel width
XPixels(x_val, mid, pixelWidth) ==
    PyDiv(IF x_val = NaN THEN mid ELSE x_val, IF PyIsZero(pixelWidth) THEN F(1) ELSE pixelWidth)

\* the sign rule with the cutoff itself on the negative side
SignedLengthFrom(length, x_px, cutoff_px) ==
    IF ~PyGt(F(cutoff_px), x_px) THEN PyNeg(length) ELSE length

\* get_measurement: signed_length = -length if (x_px > float(cutoff_px)) else length
SignedLength(length, x_px, cutoff_px) ==
    IF PyGt(x_px, F(cutoff_px)) THEN PyNeg(length) ELSE length

\* get_measurement(imp, instruction, cutoff_px=127) for the ROI the operator
\* left on the image: <<return value, Results table, error boxes, locals>>
GetMeasurement(roi, length, x_val, mid) ==
    IF roi # "line"
    THEN [ret |-> F(0), rt |-> rt, errors |-> Append(errors, "Invalid ROI"),
          roi |-> roi, length |-> Undef, x_px |-> Undef]
    ELSE LET x_px == XPixels(x_val, mid, loc.imp.pixelWidth)
             signed_length == SignedLength(F(length), x_px, 127)
         IN  [ret |-> signed_length, rt |-> Append(rt, <<"Length", signed_length, "X", x_val>>),
              errors |-> errors, roi |-> roi, length |-> F(length), x_px |-> x_px]

\* medida1, then "Process Eleventh Slice"
P_Measure1 ==
    /\ Running("measure 1")
    /\ \E drawn \in DrawnRois :
          LET m == GetMeasurement(drawn[1], drawn[2], drawn[3], drawn[4])
              n == loc.imp.nSlices
              l == [loc EXCEPT !.medida1 = m.ret, !.roi = m.roi, !.length = m.length, !.x_px = m.x_px]
          IN  /\ rt' = m.rt
              /\ CASE n < 11 ->
                        /\ errors' = Append(m.errors, "Additional measurements require slice 11")
                        /\ \/ \E n2 \in PositionStacks, pw2 \in PixelWidths :
                                 /\ loc' = [l EXCEPT !.imp = P_Image(n2, pw2)]
                                 /\ log' = IJLog(log, "New image opened.", NoNum)
                                 /\ pc' = "measure 2"
                                 /\ UNCHANGED status
                           \/ /\ loc' = [l EXCEPT !.imp = None]
                              /\ Halt("exit")
                              /\ UNCHANGED log
                   [] n = 11 ->
                        /\ errors' = m.errors
                        /\ loc' = [l EXCEPT !.imp.slice = 11]
                        /\ log' = IJLog(log, "Image has exactly 11 slices; proceeding to slice 11.", NoNum)
                        /\ pc' = "measure 2"
                        /\ UNCHANGED status
                   [] n > 11 ->
                        \E slice_num \in {0, 1, n, n + 1} :
                        IF InvalidSlice(slice_num, n)
                        THEN /\ errors' = Append(m.errors, "Invalid slice number.")
                             /\ loc' = l
                             /\ Halt("exit")
                             /\ UNCHANGED log
                        ELSE /\ errors' = m.errors
                             /\ loc' = [l EXCEPT !.imp.slice = slice_num]
                             /\ log' = IJLog(log, "Slice set to ", PyFormat(F(slice_num), 0))
                             /\ pc' = "measure 2"
                             /\ UNCHANGED status
    /\ UNCHANGED display

\* medida2, then the image and the Results window are closed
P_Measure2 ==
    /\ Running("measure 2")
    /\ \E drawn \in DrawnRois :
          LET m == GetMeasurement(drawn[1], drawn[2], drawn[3], drawn[4])
          IN  /\ rt' = m.rt
              /\ errors' = m.errors
              /\ loc' = [loc EXCEPT !.medida2 = m.ret, !.roi = m.roi, !.length = m.length,
                                    !.x_px = m.x_px]
    /\ pc' = "finished"
    /\ UNCHANGED <<status, log, display>>

\* the "finished" dialog is acknowledged: "Finalization and Results"
P_Finish ==
    /\ Running("finished")
    /\ rt' = <<>>
    /\ log' = log \o <<Line("Slice 1: ", PyFormat(loc.medida1, 3)),
                       Line("Slice 11: ", PyFormat(loc.medida2, 3)),
                       Line("---- End of the Slice Position Accuracy Test ----", NoNum),
                       Line("", NoNum)>>
    /\ Halt("done")
    /\ UNCHANGED <<errors, display, loc>>

P_Next == P_Open \/ P_Slice1 \/ P_Measure1 \/ P_Measure2 \/ P_Finish

SpecPosition == P_Init /\ [][P_Next]_vars

\* the value get_measurement returned last
LastMeasure == IF loc.medida2 # Undef THEN loc.medida2 ELSE loc.medida1

\* C7: for a straight line, get_measurement returns -length when the
\* centroid's x in pixels is strictly above 127 and +length otherwise, 127
\* itself included.
C7_SignRule ==
    (loc.roi = "line") =>
        /\ (loc.x_px[1] > 127 * loc.x_px[2]) => LastMeasure = <<-loc.length[1], loc.length[2]>>
        /\ (loc.x_px[1] <= 127 * loc.x_px[2]) => LastMeasure = loc.length

\* C7 witness: a line of length 5 with its centroid at 200 px returned -5
C7_Witness ==
    /\ loc.roi = "line"
    /\ loc.x_px = F(200)
    /\ loc.length = F(5)
    /\ loc.medida1 = F(-5)
    /\ loc.medida2 = Undef

-----------------------------------------------------------------------------
(* Low_contrast_objective_detectability.py: calculate_window_level *)

RECURSIVE SumTo(_, _)
\* cumulative after bin i (1-based): y_vals[0] + ... + y_vals[i-1]
SumTo(h, i) == IF i = 0 THEN 0 ELSE h[i] + SumTo(h, i - 1)

BinCounts == (0..MaxCount) \cup {100}
HistMins == {0, 100}                          \* stats.histMin
\* the histograms of images that have pixels
Histograms ==
    {h \in UNION {[1..n -> BinCounts] : n \in 1..MaxBins} : SumTo(h, Len(h)) > 0}

\* the 50% mark as a true quotient
HalfExact(total_pixels) == Rat(total_pixels, 2)

\* total_pixels / 2 on two integers: Python 2 floors the quotient
Half(total_pixels) == F(total_pixels \div 2)

\* "Calculate the true median": the first bin whose cumulative count reaches
\* the half; x_vals[i] = i + hist_min
MedianValue(hist, hist_min) ==
    LET i == CHOOSE k \in 1..Len(hist) :
                 /\ ~PyGt(Half(SumTo(hist, Len(hist))), F(SumTo(hist, k)))
                 /\ \A j \in 1..(k - 1) : PyGt(Half(SumTo(hist, Len(hist))), F(SumTo(hist, j)))
    IN  (i - 1) + hist_min

\* calculate_window_level: <<level, window>> or <<None, None>>
CalculateWindowLevel(hist, hist_min) ==
    LET x_val(i) == (i - 1) + hist_min
        median_value == MedianValue(hist, hist_min)
        peak == CHOOSE y \in Range(hist) : \A z \in Range(hist) : z <= y
        threshold == PyMul(F(peak), Rat(2, 100))
        x_fit == {x_val(i) : i \in {k \in 1..Len(hist) :
                        x_val(k) > median_value /\ ~PyGt(threshold, F(hist[k]))}}
        hi == CHOOSE x \in x_fit : \A z \in x_fit : z <= x
        lo == CHOOSE x \in x_fit : \A z \in x_fit : x <= z
    IN  IF Cardinality(x_fit) < 2 THEN <<None, None>>
        ELSE <<PyDiv(F(hi + lo), F(2)), F(hi - lo)>>

W_Vars == [hist |-> Undef, hist_min |-> Undef, result |-> Undef]

W_Init ==
    /\ pc = "stats"
    /\ status = "running"
    /\ log = <<>>
    /\ errors = <<>>
    /\ rt = <<>>
    /\ display = DefaultRange
    /\ loc = W_Vars

\* stats = imp.getStatistics(): the histogram of the slice shown
W_Statistics ==
    /\ Running("stats")
    /\ \E h \in Histograms, m \in HistMins :
          loc' = [loc EXCEPT !.hist = h, !.hist_min = m]
    /\ pc' = "calculate"
    /\ UNCHANGED <<status, log, errors, rt, display>>

\* the rest of calculate_window_level
W_Calculate ==
    /\ Running("calculate")
    /\ loc' = [loc EXCEPT !.result = CalculateWindowLevel(loc.hist, loc.hist_min)]
    /\ Halt("done")
    /\ UNCHANGED <<log, errors, rt, display>>

W_Next == W_Statistics \/ W_Calculate

SpecWindowLevel == W_Init /\ [][W_Next]_vars

\* the procedure C8 refers to: the median is the first bin whose cumulative
\* count reaches half the total; the bins that survive lie strictly above it
\* and hold at least 2% of the peak count
ReferenceWindowLevel(hist, hist_min) ==
    LET total == SumTo(hist, Len(hist))
        m == CHOOSE k \in 1..Len(hist) :
                 /\ 2 * SumTo(hist, k) >= total
                 /\ \A j \in 1..(k - 1) : 2 * SumTo(hist, j) < total
        peak == CHOOSE y \in Range(hist) : \A z \in Range(hist) : z <= y
        kept == {k \in 1..Len(hist) : k > m /\ 100 * hist[k] >= 2 * peak}
        hi == CHOOSE k \in kept : \A z \in kept : z <= k
        lo == CHOOSE k \in kept : \A z \in kept : k <= z
    IN  IF Cardinality(kept) < 2 THEN <<None, None>>
        ELSE <<Rat(2 * hist_min + (hi - 1) + (lo - 1), 2), F(hi - lo)>>

\* C8 (as claimed): calculate_window_level returns what the reference
\* procedure returns, for every histogram.
C8_MatchesReference ==
    loc.result # Undef => loc.result = ReferenceWindowLevel(loc.hist, loc.hist_min)

-----------------------------------------------------------------------------
(* Low_contrast_objective_detectability.py: the script *)

CANCEL_SENTINEL == F(-2147483647 - 1)
\* what IJ.getNumber can return: the cancel sentinel, NaN, or the number typed
EntryReturns == {CANCEL_SENTINEL, NaN, F(1), Rat(-1, 2)}
\* the histograms the slices of the two series can have
SliceHistograms == {<<1, 1, 1>>, <<2, 0, 1>>, <<1, 1, 1, 1>>}
DicomTypes == {"Enhanced", "Multi-Frame", "Single-Frame"}

L_Vars == [dcm_type |-> Undef, is_multi_echo |-> Undef, slice_to_start |-> Undef,
           steps |-> Undef, imp |-> Undef, level |-> Undef, window |-> Undef,
           calls |-> 0,      \* how many times calculate_window_level has returned
           returned |-> <<>>, \* what IJ.getNumber returned, prompt after prompt
           t1_slice8 |-> Undef, t1_slice9 |-> Undef, t1_slice10 |-> Undef, t1_slice11 |-> Undef,
           t2_slice8 |-> Undef, t2_slice9 |-> Undef, t2_slice10 |-> Undef, t2_slice11 |-> Undef,
           spheres_T1 |-> Undef, spheres_T2 |-> Undef]

L_Init ==
    /\ pc = "select T1"
    /\ status = "running"
    /\ log = <<Line("---- Start of Low Contrast Objective Detectability Test ----", NoNum)>>
    /\ errors = <<>>
    /\ rt = <<>>
    /\ display = DefaultRange
    /\ loc = L_Vars

\* get_number_or_nan on what IJ.getNumber returned
GetNumberOrNan(v) == IF v = CANCEL_SENTINEL \/ v = NaN THEN NaN ELSE v

\* a window/level block that resets the display range when there is no
\* solution
WindowLevelBlockReset(wl, add, factor) ==
    IF wl[1] = None
    THEN [level |-> None, window |-> None, display |-> DefaultRange]
    ELSE LET level  == PyAdd(wl[1], F(add))
             window == PyMul(wl[2], factor)
         IN  [level |-> level, window |-> window,
              display |-> <<PySub(level, PyDiv(window, F(2))), PyAdd(level, PyDiv(window, F(2)))>>]

\* "if level is not None:" level += add; window *= factor; setDisplayRange
\* gives the script's level and window and the display range afterwards
WindowLevelBlock(wl, add, factor) ==
    IF wl[1] = None
    THEN [level |-> None, window |-> None, display |-> display]
    ELSE LET level  == PyAdd(wl[1], F(add))
             window == PyMul(wl[2], factor)
         IN  [level |-> level, window |-> window,
              display |-> <<PySub(level, PyDiv(window, F(2))), PyAdd(level, PyDiv(window, F(2)))>>]

\* the four calls of calculate_window_level: the prompt they follow, the
\* prompt they lead to, the level offset and the window factor
L_Sites == [T1_first |-> [from |-> "select T1", to |-> "T1 slice 8", add |-> 1480, factor |-> Rat(80, 100)],
            T1_last  |-> [from |-> "T1 slice 10", to |-> "T1 slice 11", add |-> 1380, factor |-> Rat(85, 100)],
            T2_first |-> [from |-> "select T2", to |-> "T2 slice 8", add |-> 1100, factor |-> Rat(110, 100)],
            T2_last  |-> [from |-> "T2 slice 10", to |-> "T2 slice 11", add |-> 1000, factor |-> Rat(110, 100)]]

\* imp.setSlice(n): ImageJ shows slice n when the stack has one and ignores
\* the call otherwise; the argument is kept in the field setSlice
SetSlice(imp, n) ==
    [nSlices |-> imp.nSlices,
     slice |-> IF 1 <= n /\ n <= imp.nSlices THEN n ELSE imp.slice,
     setSlice |-> n]

\* setSlice(n), calculate_window_level on that slice's histogram h, and the
\* window/level block of site s, applied to the script variables l
L_WindowLevel(l, s, n, h) ==
    LET b == WindowLevelBlock(CalculateWindowLevel(h, 0), L_Sites[s].add, L_Sites[s].factor)
    IN  /\ loc' = [l EXCEPT !.imp = SetSlice(l.imp, n), !.level = b.level, !.window = b.window,
                            !.calls = @ + 1]
        /\ display' = b.display
        /\ pc' = L_Sites[s].to

\* slice_to_start and steps of the T2 series
T2Start(dcm_type, is_multi_echo) ==
    IF dcm_type = "Single-Frame" THEN <<1, 1>>
    ELSE IF is_multi_echo = "Yes" THEN <<16, 2>> ELSE <<8, 1>>

\* select_and_open_dicom for the T1 (s = "T1_first") or T2 (s = "T2_first")
\* series, up to the first "Slice 8" prompt
L_Select(s, Hists, Types, Stacks) ==
    /\ Running(L_Sites[s].from)
    /\ UNCHANGED rt
    /\ \/ \* the type dialog is cancelled: None cannot be unpacked
          /\ Halt("exception")
          /\ UNCHANGED <<log, errors, display, loc>>
       \/ \E t \in Types :
          /\ log' = IJLog(log, "DICOM Type selected: ", [text |-> t])
          /\ errors' = Append(errors, "No image open.")
          /\ Halt("exit")
          /\ UNCHANGED <<display, loc>>
       \/ \E t \in Types, me \in {"Yes", "No"}, h \in Hists, n \in Stacks :
          LET start == IF s = "T1_first"
                       THEN <<IF t = "Single-Frame" THEN 1 ELSE 8, loc.steps>>
                       ELSE T2Start(t, me)
              l == [loc EXCEPT !.imp = Opened(IF t = "Single-Frame" THEN 4 ELSE n),
                               !.dcm_type = t, !.is_multi_echo = me,
                               !.slice_to_start = start[1], !.steps = start[2]]
          IN  /\ log' = IJLog(log, "DICOM Type selected: ", [text |-> t])
              /\ L_WindowLevel(l, s, start[1], h)
              /\ UNCHANGED <<status, errors>>

\* the entries that are followed by setSlice alone: <<prompt, variable,
\* slices to move on, next prompt, series>>
L_Plain == {<<"T1 slice 8", "t1_slice8", 1, "T1 slice 9", "T1">>,
            <<"T1 slice 9", "t1_slice9", 2, "T1 slice 10", "T1">>,
            <<"T2 slice 8", "t2_slice8", 1, "T2 slice 9", "T2">>,
            <<"T2 slice 9", "t2_slice9", 2, "T2 slice 10", "T2">>}

\* the spoke count of slice 8 or 9 is entered; on to the next slice
L_Count(Entries) ==
    /\ \E e \in L_Plain, v \in Entries :
          /\ Running(e[1])
          /\ loc' = [loc EXCEPT ![e[2]] = GetNumberOrNan(v), !.returned = Append(@, v),
                                !.imp = SetSlice(loc.imp, loc.slice_to_start +
                                            e[3] * (IF e[5] = "T1" THEN 1 ELSE loc.steps))]
          /\ pc' = e[4]
    /\ UNCHANGED <<status, log, errors, rt, display>>

\* the spoke count of slice 10 is entered; slice 11 and its window/level
L_CountThenWindow(Entries, Hists) ==
    /\ \E s \in {"T1_last", "T2_last"}, v \in Entries, h \in Hists :
          /\ Running(L_Sites[s].from)
          /\ IF s = "T1_last"
             THEN L_WindowLevel([loc EXCEPT !.t1_slice10 = GetNumberOrNan(v),
                                          !.returned = Append(@, v)], s,
                                loc.slice_to_start + 3, h)
             ELSE L_WindowLevel([loc EXCEPT !.t2_slice10 = GetNumberOrNan(v),
                                          !.returned = Append(@, v)], s,
                                loc.slice_to_start + 3 * loc.steps, h)
    /\ UNCHANGED <<status, log, errors, rt>>

\* the spoke count of slice 11 of the T1 series; the image is closed
L_LastT1(Entries) ==
    /\ Running("T1 slice 11")
    /\ \E v \in Entries :
          loc' = [loc EXCEPT !.t1_slice11 = GetNumberOrNan(v), !.returned = Append(@, v),
                            !.imp = None]
    /\ display' = DefaultRange
    /\ pc' = "select T2"
    /\ UNCHANGED <<status, log, errors, rt>>

\* a sum that counts a missing entry as zero
SpheresSkipNaN(a, b, c, d) ==
    LET z(x) == IF x = NaN THEN F(0) ELSE x
    IN  PyAdd(PyAdd(PyAdd(z(a), z(b)), z(c)), z(d))

\* spheres = slice8 + slice9 + slice10 + slice11
Spheres(a, b, c, d) == PyAdd(PyAdd(PyAdd(a, b), c), d)

\* the spoke count of slice 11 of the T2 series; the two sums
L_LastT2(Entries) ==
    /\ Running("T2 slice 11")
    /\ \E v \in Entries :
          loc' = [loc EXCEPT !.t2_slice11 = GetNumberOrNan(v), !.returned = Append(@, v),
                     !.imp = None,
                     !.spheres_T1 = Spheres(loc.t1_slice8, loc.t1_slice9, loc.t1_slice10, loc.t1_slice11),
                     !.spheres_T2 = Spheres(loc.t2_slice8, loc.t2_slice9, loc.t2_slice10, GetNumberOrNan(v))]
    /\ display' = DefaultRange
    /\ pc' = "completed"
    /\ UNCHANGED <<status, log, errors, rt>>

\* int(x): towards zero
PyInt(x) == (IF x[1] < 0 THEN -1 ELSE 1) * (AbsInt(x[1]) \div x[2])

\* "%s" % ("NaN" if math.isnan(x) else int(x))
SpokesText(x) == IF x = NaN THEN [text |-> "NaN"] ELSE PyFormat(F(PyInt(x)), 0)

\* the "completed" dialog is acknowledged: the totals are logged
L_Finish ==
    /\ Running("completed")
    /\ rt' = <<>>
    /\ log' = log \o <<Line("Number of complete spokes in T1: ", SpokesText(loc.spheres_T1)),
                       Line("Number of complete spokes in T2: ", SpokesText(loc.spheres_T2)),
                       Line("---- End of Low Contrast Objective Detectability Test ----", NoNum),
                       Line("", NoNum)>>
    /\ Halt("done")
    /\ UNCHANGED <<errors, display, loc>>

L_Next(Entries, Hists, Types, Stacks) ==
    \/ L_Select("T1_first", Hists, Types, Stacks)
    \/ L_Select("T2_first", Hists, Types, Stacks)
    \/ L_Count(Entries)
    \/ L_CountThenWindow(Entries, Hists)
    \/ L_LastT1(Entries)
    \/ L_LastT2(Entries)
    \/ L_Finish

\* every histogram at the four sites and every type of series, stacks of 11
\* and of 22 slices (one and two echoes), the default count entered each time
SpecLowContrastWindow ==
    L_Init /\ [][L_Next({F(10)}, SliceHistograms, DicomTypes, {11, 22})]_vars

\* every entry at the eight prompts, one histogram, Enhanced series of 11 slices
SpecLowContrastCount ==
    L_Init /\ [][L_Next(EntryReturns, {<<1, 1, 1>>}, {"Enhanced"}, {11})]_vars

\* C9: a step in which calculate_window_level returns (None, None) leaves the
\* display range as it was, does not end the script, and stops at the next
\* operator prompt.
C9_NoSolutionKeepsRange ==
    [][(loc'.calls = loc.calls + 1 /\ loc'.level = None) =>
           /\ display' = display
           /\ status' = "running"
           /\ pc' \in {"T1 slice 8", "T1 slice 11", "T2 slice 8", "T2 slice 11"}]_vars

\* C9 witness: the T2 series is at its last slice, the range set at its
\* first window/level call is still there although a second call was made
C9_Witness ==
    /\ pc = "T2 slice 11"
    /\ loc.calls = 4
    /\ loc.level = None
    /\ display # DefaultRange

\* the total that text t of the log line must show when the four values e
\* returned by IJ.getNumber include a missing one (missing) or not
TotalLogged(t, e, missing) ==
    LET n == e[1][1] * e[2][2] * e[3][2] * e[4][2] + e[2][1] * e[1][2] * e[3][2] * e[4][2]
               + e[3][1] * e[1][2] * e[2][2] * e[4][2] + e[4][1] * e[1][2] * e[2][2] * e[3][2]
        d == e[1][2] * e[2][2] * e[3][2] * e[4][2]
        total == IF n >= 0 THEN n \div d ELSE -((-n) \div d)
        shown == IF missing THEN [text |-> "NaN"]
                 ELSE [neg |-> total < 0, int |-> AbsInt(total), frac |-> <<>>]
    IN  /\ missing \/ d # 0
        /\ \E i \in DOMAIN log : log[i][1] = t
        /\ \A i \in DOMAIN log : log[i][1] = t => log[i][2] = shown

\* the two series: the text of the total's log line and the four values
\* IJ.getNumber returned
SeriesTotals ==
    {<<"Number of complete spokes in T1: ", SubSeq(loc.returned, 1, 4)>>,
     <<"Number of complete spokes in T2: ", SubSeq(loc.returned, 5, 8)>>}

-----------------------------------------------------------------------------
(* area_to_radius_pixels and the calibration that precedes it *)

\* C11 (as claimed): in the SNR test, once the calibration is resolved and
\* area_to_radius_pixels is called, the pixel width and the pixel height in
\* centimetres are both strictly positive.
C11_CalibrationPositive ==
    loc.pixel_width_cm # Undef =>
        /\ PyGt(loc.pixel_width_cm, F(0))
        /\ PyGt(loc.pixel_height_cm, F(0))

MaxPixel == 2
ValueError == <<-1, 0>>                       \* math domain error
PixelDims == {Rat(k, 10) : k \in (-MaxPixel)..MaxPixel}

\* area_to_radius_pixels: math.sqrt(area_cm2 / (math.pi * pixel_area_cm2)).
\* The radius r is given by the rational pi * r^2; a zero pixel area raises
\* ZeroDivisionError and a negative quotient makes math.sqrt raise ValueError
AreaToRadiusPixels(area_cm2, px_w_cm, px_h_cm) ==
    LET pixel_area_cm2 == PyMul(px_w_cm, px_h_cm)
        quotient == PyDiv(area_cm2, pixel_area_cm2)
    IN  IF quotient = ZeroDivisionError THEN ZeroDivisionError
        ELSE IF PyGt(F(0), quotient) THEN ValueError
        ELSE quotient

A_Init ==
    /\ pc = "arguments"
    /\ status = "running"
    /\ log = <<>>
    /\ errors = <<>>
    /\ rt = <<>>
    /\ display = DefaultRange
    /\ loc = [area_cm2 |-> Undef, px_w_cm |-> Undef, px_h_cm |-> Undef, radius |-> Undef]

\* the caller's arguments
A_Arguments ==
    /\ Running("arguments")
    /\ \E a \in {50 * k : k \in 1..(2 * MaxPixel)}, w \in PixelDims, h \in PixelDims :
          loc' = [loc EXCEPT !.area_cm2 = F(a), !.px_w_cm = w, !.px_h_cm = h]
    /\ pc' = "call"
    /\ UNCHANGED <<status, log, errors, rt, display>>

\* the body of area_to_radius_pixels
A_Call ==
    /\ Running("call")
    /\ LET r == AreaToRadiusPixels(loc.area_cm2, loc.px_w_cm, loc.px_h_cm)
       IN  /\ loc' = [loc EXCEPT !.radius = r]
           /\ IF r \in {ZeroDivisionError, ValueError} THEN Halt("exception") ELSE Halt("done")
    /\ UNCHANGED <<log, errors, rt, display>>

A_Next == A_Arguments \/ A_Call

SpecAreaToRadius == A_Init /\ [][A_Next]_vars

\* C12 (as claimed): whenever the pixel width or the pixel height is <= 0,
\* area_to_radius_pixels returns no radius, whatever the other dimension.
C12_FailsOnNonPositive ==
    (status # "running" /\ (~PyGt(loc.px_w_cm, F(0)) \/ ~PyGt(loc.px_h_cm, F(0)))) =>
        status = "exception"

\* C13: in the SNR test, once the Image Calculator has failed to give a
\* result image the run is over: the script has exited, no mean, deviation
\* or SNR has been computed, and none is in the log.
C13_NoResultAborts ==
    "Fail to subtract (Image Calculator)." \in Range(errors) =>
        /\ status = "exit"
        /\ loc.mean_ref = Undef /\ loc.std_ref = Undef /\ loc.SNR = Undef
        /\ \A i \in DOMAIN log : log[i][1] \notin {"Mean: ", "Standard Deviation: ", "SNR: "}

\* C13 witness: both images were opened, the subtraction gave no image and
\* the script has stopped with "Image processing failed."
C13_Witness ==
    /\ status = "exit"
    /\ loc.impB # Undef /\ None = loc.result
    /\ errors = <<"Fail to subtract (Image Calculator).", "Image processing failed.">>

\* C14 (as claimed): in the slice-position test, when the ROI left at the
\* slice 11 prompt is not a straight line, no value is logged as the result
\* of slice 11 (the script asks again or stops instead).
C14_InvalidRoiNotSubstituted ==
    (loc.medida2 # Undef /\ loc.roi # "line") =>
        \A i \in DOMAIN log : log[i][1] # "Slice 11: "

-----------------------------------------------------------------------------
(* Geometric_accuracy.py *)

\* what the operator can present: the lengths rt.getValue("Length", ...)
\* gives and the slice counts t1w.getNSlices() gives
GeoInputs == [length |-> {148, 190}, nSlices |-> {4, 11}]

Ge_Init ==
    /\ pc = "open localizer"
    /\ status = "running"
    /\ log = <<Line("---- Geometric Accuracy Test ----", NoNum),
               Line("=== LOCALIZER measurements ===", NoNum)>>
    /\ errors = <<>>
    /\ rt = <<>>
    /\ display = DefaultRange
    /\ loc = [m |-> <<>>,        \* the values get_measurement has returned,
                                 \* localizer_measurement first, t1_horz_5 last
              t1w |-> Undef]

\* open_dicom_file for the localizer, the T1 series, or the slice 5 image;
\* sys.exit() when nothing was opened
Ge_Open ==
    /\ status = "running"
    /\ pc \in {"open localizer", "open T1", "open slice 5"}
    /\ \/ /\ Halt("exit")
          /\ log' = IF pc = "open slice 5" THEN IJLog(log, "ACR T1w - Slice 5", NoNum) ELSE log
          /\ UNCHANGED loc
       \/ /\ pc' = "measure"
          /\ UNCHANGED status
          /\ CASE pc = "open localizer" -> UNCHANGED <<log, loc>>
               [] pc = "open T1" ->
                    /\ \E n \in GeoInputs.nSlices : loc' = [loc EXCEPT !.t1w = [nSlices |-> n, slice |-> 1]]
                    /\ log' = IJLog(log, "ACR T1w - Slice 1", NoNum)
               [] pc = "open slice 5" ->
                    /\ \E n \in GeoInputs.nSlices : loc' = [loc EXCEPT !.t1w = [nSlices |-> n, slice |-> 1]]
                    /\ log' = IJLog(log, "ACR T1w - Slice 5", NoNum)
    /\ UNCHANGED <<errors, rt, display>>

\* "{:.3f}".format(x, ...): None cannot be formatted with 'f'
GeoFormat(xs) ==
    IF \E i \in DOMAIN xs : xs[i] = None THEN ValueError
    ELSE [i \in DOMAIN xs |-> PyFormat(xs[i], 3)]

\* the lines of "LOG FINAL", in order: text and the measurements formatted
GeoSummary(m) ==
    <<Line("LOCALIZER: ", <<m[1]>>), Line("T1 Slice 1 - Vertical: , Horizontal: ", <<m[2], m[3]>>),
      Line("T1 Slice 5 - Diagonal 1: , Diagonal 2: ", <<m[4], m[5]>>),
      Line("T1 Slice 5 - Vertical: , Horizontal: ", <<m[6], m[7]>>)>>
        \o [i \in 1..7 |-> Line("", <<m[i]>>)]

\* get_measurement at the prompt that is due, and the code up to the next
\* prompt; after the seventh, the summary
Ge_Measure ==
    /\ Running("measure")
    /\ \E valid \in BOOLEAN, len \in GeoInputs.length :
          LET k == Len(loc.m) + 1
              m == Append(loc.m, IF valid THEN F(len) ELSE None)
              l1 == IF valid THEN IJLog(log, "Length: ", PyFormat(F(len), 3)) ELSE log
              summary == GeoSummary(m)
              \* the summary lines before the first one that cannot be formatted
              ok == {j \in DOMAIN summary :
                        \A i \in 1..j : \A x \in Range(summary[i][2]) : x # None}
          IN  /\ rt' = IF valid THEN Append(rt, <<"Length", F(len)>>) ELSE rt
              /\ errors' = IF ~valid THEN Append(errors, "Invalid ROI")
                           ELSE IF k = 3 /\ loc.t1w.nSlices < 5
                           THEN Append(errors, "Additional measurements require slice 5")
                           ELSE errors
              /\ CASE k = 1 ->
                        /\ loc' = [loc EXCEPT !.m = m]
                        /\ log' = IJLog(l1, "=== ACR T1w measurements ===", NoNum)
                        /\ pc' = "open T1"
                        /\ UNCHANGED status
                   [] k = 3 /\ loc.t1w.nSlices < 5 ->
                        /\ loc' = [loc EXCEPT !.m = m, !.t1w = None]
                        /\ log' = l1
                        /\ pc' = "open slice 5"
                        /\ UNCHANGED status
                   [] k = 3 /\ loc.t1w.nSlices >= 5 ->
                        /\ loc' = [loc EXCEPT !.m = m, !.t1w.slice = 5]
                        /\ log' = IJLog(l1, "ACR T1w - Slice 5", NoNum)
                        /\ UNCHANGED <<pc, status>>
                   [] k = 7 ->
                        /\ loc' = [loc EXCEPT !.m = m, !.t1w = None]
                        /\ log' = IJLog(l1, "=== SUMMARY ===", NoNum)
                                    \o [j \in 1..Cardinality(ok) |->
                                          Line(summary[j][1], GeoFormat(summary[j][2]))]
                        /\ IF Cardinality(ok) < Len(summary)
                           THEN Halt("exception")
                           ELSE pc' = "finished" /\ UNCHANGED status
                   [] OTHER ->
                        /\ loc' = [loc EXCEPT !.m = m]
                        /\ log' = l1
                        /\ UNCHANGED <<pc, status>>
    /\ UNCHANGED display

\* the "finished" dialog is acknowledged
Ge_Finish ==
    /\ Running("finished")
    /\ rt' = <<>>
    /\ log' = log \o <<Line("---- End of the Geometric Accuracy test ----", NoNum), Line("", NoNum)>>
    /\ Halt("done")
    /\ UNCHANGED <<errors, display, loc>>

Ge_Next == Ge_Open \/ Ge_Measure \/ Ge_Finish

SpecGeometric == Ge_Init /\ [][Ge_Next]_vars

\* C15 (as claimed): in the geometric-accuracy test a missing or non-line ROI
\* at any of the seven prompts never ends the run in an unhandled exception.
C15_InvalidRoiNeverCrashes ==
    (\E k \in DOMAIN loc.m : loc.m[k] = None) => status # "exception"

\* C16 (as claimed): in the slice-thickness test, the display range set
\* after the second background ROI is centred on the mean of the two ROI
\* means: (min_display + max_display) / 2 = (mean1 + mean2) / 2.
C16_RefinedRangeCentred ==
    loc.mean2 # Undef =>
        PyDiv(PyAdd(display[1], display[2]), F(2)) = PyDiv(PyAdd(loc.mean1, loc.mean2), F(2))

\* C17 (as claimed): in the slice-position test a line of non-zero length
\* whose centroid lies right of the 127 px cutoff (the right bar is the
\* longer one) gives a positive result, and one whose centroid lies left of
\* the cutoff (the left bar is the longer one) a negative result, as the
\* instruction dialog tells the operator.
C17_SignFollowsDialog ==
    (loc.roi = "line" /\ PyGt(loc.length, F(0))) =>
        /\ PyGt(loc.x_px, F(127)) => PyGt(LastMeasure, F(0))
        /\ PyGt(F(127), loc.x_px) => PyGt(F(0), LastMeasure)

\* the four peripheral means <<top, btm, left, right>> as the eight flips and
\* 90-degree rotations of the image present them
Orientations(t, b, l, r) ==
    {<<t, b, l, r>>, <<l, r, b, t>>, <<b, t, r, l>>, <<r, l, t, b>>,
     <<b, t, l, r>>, <<t, b, r, l>>, <<l, r, t, b>>, <<r, l, b, t>>}

\* C18 (as claimed): the ghosting ratio computed by the script equals the
\* ratio of every flipped or rotated reassignment of the four peripheral
\* means, with the same central mean.
C18_OrientationIndependent ==
    loc.GR # Undef =>
        \A o \in Orientations(loc.top, loc.btm, loc.left, loc.right) :
            GhostingRatio(o[1], o[2], o[3], o[4], loc.mean_ref) = loc.GR

C20_PiuOfEqualMeans ==
    (loc.high_signal # Undef /\ loc.high_signal = loc.low_signal
        /\ ~PyIsZero(loc.high_signal)) =>
        /\ Piu(loc.high_signal, loc.low_signal) = F(100)
        /\ loc.piu = F(100)
        /\ Logged("Calculated PIU: ") = {[neg |-> FALSE, int |-> 100, frac |-> <<0, 0>>]}

\* C20 witness: both means were measured as -100 and the PIU is 100
C20_Witness ==
    /\ loc.high_signal = F(-100)
    /\ loc.low_signal = F(-100)
    /\ loc.piu = F(100)
    /\ pc = "reminder"

-----------------------------------------------------------------------------
(* Central_frequency.py *)

MaxLines == 3         \* a header has 0..MaxLines lines

\* The header text of the image (imp.getInfoProperty()) is <<lines, newline>>:
\* the lines, each "tag  name:" followed by the characters of its value, and
\* whether the last line ends with "\n".  A DICOM data set holds a tag at
\* most once, so no two lines of a header start with the same tag.
Headers ==
    LET HeaderTexts ==
            {<<" ", "2", "9", "9">>, <<" ", "3", "0", "0">>, <<" ", "9", "9", "9">>,
             <<" ", "1", "0", "0", "0">>, <<" ", "6", "3", ".", "9">>, <<>>}
        HeaderLines == [tag : {"0018,0080", "0018,0081", "0018,0084"}, text : HeaderTexts]
    IN  {<<ls, nl>> : ls \in {s \in UNION {[1..n -> HeaderLines] : n \in 0..MaxLines} :
                                 \A i, j \in DOMAIN s : s[i].tag = s[j].tag => i = j},
                      nl \in BOOLEAN}

\* str.strip()
RECURSIVE Strip(_)
Strip(s) ==
    IF s # <<>> /\ Head(s) = " " THEN Strip(Tail(s))
    ELSE IF s # <<>> /\ s[Len(s)] = " " THEN Strip(SubSeq(s, 1, Len(s) - 1))
    ELSE s

\* float(s) of a text of digits with at most one decimal point; any other
\* text of the model's alphabet (the empty one, a lone point, an inner blank)
\* raises ValueError
PyFloat(s) ==
    LET t == Strip(s)
        Digits == <<"0", "1", "2", "3", "4", "5", "6", "7", "8", "9">>
        points == {i \in DOMAIN t : t[i] = "."}
        digs == {i \in DOMAIN t : t[i] \in Range(Digits)}
        Val(c) == (CHOOSE k \in DOMAIN Digits : Digits[k] = c) - 1
        RECURSIVE IntOf(_, _)
        IntOf(i, acc) ==
            IF i > Len(t) THEN acc
            ELSE IF i \in points THEN IntOf(i + 1, acc)
            ELSE IntOf(i + 1, <<10 * acc[1] + Val(t[i]),
                                IF \E p \in points : p < i THEN 10 * acc[2] ELSE acc[2]>>)
    IN  IF digs = {} \/ Cardinality(points) > 1 \/ digs \cup points # DOMAIN t
        THEN ValueError
        ELSE LET r == IntOf(1, <<0, 1>>) IN Rat(r[1], r[2])

\* printImageType, the loop over the header lines: <<tr, log>> after line i - 1
RECURSIVE RepetitionTime(_, _, _)
RepetitionTime(lines, i, acc) ==
    IF i > Len(lines) THEN acc
    ELSE IF lines[i].tag = "0018,0080"
    THEN LET tr == PyFloat(lines[i].text)
         IN  IF tr = ValueError
             THEN RepetitionTime(lines, i + 1,
                                 <<None, IJLog(acc[2], "Could not parse TR value.", NoNum)>>)
             ELSE RepetitionTime(lines, i + 1, <<tr, acc[2]>>)
    ELSE RepetitionTime(lines, i + 1, acc)

\* printImageType, the classification of a TR, with 'tr <= 300' for 'tr < 300'
ImageTypeInclusive(tr) ==
    IF tr = None THEN "TR value not found."
    ELSE IF ~PyGt(tr, F(300)) THEN "Image Type: Localizer."
    ELSE IF PyGt(F(1000), tr) THEN "Image Type: ACR T1-weighted image."
    ELSE "Image Type: ACR T2-weighted image."

\* printImageType, the classification of a TR
ImageType(tr) ==
    IF tr = None THEN "TR value not found."
    ELSE IF PyGt(F(300), tr) THEN "Image Type: Localizer."
    ELSE IF PyGt(F(1000), tr) THEN "Image Type: ACR T1-weighted image."
    ELSE "Image Type: ACR T2-weighted image."

\* printImageType(imp): the log l after the call, info the header or None
PrintImageType(l, info) ==
    LET r == IF info = None THEN <<None, l>>
             ELSE RepetitionTime(info[1], 1, <<None, l>>)
    IN  IJLog(r[2], ImageType(r[1]), NoNum)

\* info[value_start:end_index].strip() for the first line with the tag
\* 0018,0084: info.find("\n", value_start) is -1 when that line is the last
\* one and has no "\n", and the slice then stops before the last character
ImagingFrequencyText(info) ==
    LET lines == info[1]
        i == CHOOSE k \in DOMAIN lines :
                 /\ lines[k].tag = "0018,0084"
                 /\ \A j \in 1..(k - 1) : lines[j].tag # "0018,0084"
        raw == lines[i].text
    IN  Strip(IF i = Len(lines) /\ ~info[2] /\ raw # <<>>
              THEN SubSeq(raw, 1, Len(raw) - 1)
              ELSE raw)

CF_Init ==
    /\ pc = "open"
    /\ status = "running"
    /\ log = <<>>
    /\ errors = <<>>
    /\ rt = <<>>
    /\ display = DefaultRange
    /\ loc = [info |-> Undef]

\* the file dialog, the header, printImageType and the search of the tag
CF_Open ==
    /\ Running("open")
    /\ \/ \* no image: imp.getInfoProperty() on None
          /\ Halt("exception")
          /\ UNCHANGED <<log, loc>>
       \/ \* an image without header text: info.find on None
          /\ loc' = [loc EXCEPT !.info = None]
          /\ log' = PrintImageType(IJLog(log, "---- Central Frequency Test ----", NoNum), None)
          /\ Halt("exception")
       \/ \E info \in Headers :
             LET l == PrintImageType(IJLog(log, "---- Central Frequency Test ----", NoNum), info)
                 found == \E k \in DOMAIN info[1] : info[1][k].tag = "0018,0084"
                 central_frequency_mhz == PyFloat(ImagingFrequencyText(info))
             IN  /\ loc' = [loc EXCEPT !.info = info]
                 /\ IF ~found
                    THEN /\ log' = IJLog(l, "Imaging Frequency (0018, 0084) tag not found in the DICOM header.", NoNum)
                         /\ Halt("done")
                    ELSE IF central_frequency_mhz = ValueError
                    THEN /\ log' = IJLog(l, "Could not convert the value to a number.", NoNum)
                         /\ Halt("done")
                    ELSE /\ log' = IJLog(IJLog(l, "The central frequency (Imaging Frequency) is: ",
                                               [float |-> central_frequency_mhz]),
                                         "", [float |-> central_frequency_mhz])
                         /\ pc' = "finished"
                         /\ UNCHANGED status
    /\ UNCHANGED <<errors, rt, display>>

\* the final dialog is acknowledged
CF_Finish ==
    /\ Running("finished")
    /\ log' = IJLog(IJLog(log, "---- End of the Central Frequency test ----", NoNum), "", NoNum)
    /\ Halt("done")
    /\ UNCHANGED <<errors, rt, display, loc>>

CF_Next == CF_Open \/ CF_Finish

SpecCentralFrequency == CF_Init /\ [][CF_Next]_vars

\* the TR values that the lines with tag 0018,0080 of the header yield
YieldedTr ==
    IF loc.info \in {Undef, None} THEN {}
    ELSE {PyFloat(loc.info[1][i].text) :
             i \in {k \in DOMAIN loc.info[1] : loc.info[1][k].tag = "0018,0080"}} \ {ValueError}

-----------------------------------------------------------------------------
\* C22 (as claimed): when the file dialog of image A or of image B is
\* cancelled (or the file cannot be opened), the SNR script ends through the
\* 'Image processing failed.' box and SystemExit, never with an unhandled
\* exception.
C22_CancelAbortsCleanly ==
    (None = loc.impA \/ None = loc.impB) =>
        /\ status = "exit"
        /\ "Image processing failed." \in Range(errors)

-----------------------------------------------------------------------------
\* C23 (as claimed): when the DICOM-type dialog of the T1 or of the T2 series
\* is cancelled (the script leaves the dialog without logging a selected
\* type), it shows 'Dialog was canceled. Exiting.' and ends with SystemExit,
\* never with an unhandled exception.
C23_TypeCancelExits ==
    [][\A s \in {"T1_first", "T2_first"} :
          (Running(L_Sites[s].from) /\ log' = log /\ status' # "running") =>
              /\ status' = "exit"
              /\ "Dialog was canceled. Exiting." \in Range(errors')]_vars

-----------------------------------------------------------------------------
\* C24 (as claimed): when the SNR script subtracts B from A, both images show
\* the same slice index, whatever their slice counts.
C24_SameSliceSubtracted ==
    loc.result # Undef => loc.impA.slice = loc.impB.slice

-----------------------------------------------------------------------------
\* C25 (as claimed): in the uniformity test the "more than 11 slices" dialog
\* is shown only for a stack of more than 11 slices, and every stack of at
\* most 11 slices goes on at slice 7, or at slice 1 when it has fewer than 7.
C25_DialogOnlyAboveEleven ==
    /\ Running("slice_number") => loc.imp.nSlices > 11
    /\ (Running("calibration") /\ loc.imp.nSlices <= 11) =>
           loc.imp.slice = IF loc.imp.nSlices < 7 THEN 1 ELSE 7

-----------------------------------------------------------------------------
\* C26 (as claimed): at every slice prompt of the low-contrast test the
\* setSlice call that led to it asked for a slice of the stack:
\* 1 <= n <= number of slices, for every DICOM type and multi-echo choice.
C26_SetSliceInRange ==
    (status = "running" /\ pc \in {e[1] : e \in L_Plain} \cup {L_Sites[s].to : s \in DOMAIN L_Sites}
                                   \cup {L_Sites[s].from : s \in {"T1_last", "T2_last"}}) =>
        (1 <= loc.imp.setSlice /\ loc.imp.setSlice <= loc.imp.nSlices)

-----------------------------------------------------------------------------
\* C27 (as claimed): whenever a line of the header holds the tag 0018,0084,
\* a ':' and a decimal number, the central-frequency script logs exactly that
\* number, wherever the line stands in the header and whether or not the
\* header ends with a newline.
C27_LogsExactNumber ==
    loc.info \notin {Undef, None} =>
        \A i \in DOMAIN loc.info[1] :
            LET line == loc.info[1][i]
            IN  (line.tag = "0018,0084" /\ PyFloat(line.text) # ValueError) =>
                    Logged("The central frequency (Imaging Frequency) is: ") =
                        {[float |-> PyFloat(line.text)]}

-----------------------------------------------------------------------------
\* C28 (as claimed): while the final "SNR test finished, collect the results"
\* dialog is shown, the result values (mean, standard deviation, SNR) are
\* already in the Log window or in the Results table.
C28_ResultsBeforeFinalDialog ==
    Running("finished") =>
        \/ /\ Logged("Mean: ") # {}
           /\ Logged("Standard Deviation: ") # {}
           /\ Logged("SNR: ") # {}
        \/ rt # <<>>

-----------------------------------------------------------------------------
\* C29 (as claimed): the display range that adjust_window_level sets in the
\* slice-position test has min_display <= max_display, whatever the pixel
\* range [img_min, img_max] of the image.
C29_DisplayRangeOrdered ==
    display # DefaultRange => display[1] <= display[2]

-----------------------------------------------------------------------------
(* High_contrast_spatial_resolution.py, from Step 2 (the zoom on the ROI) on; *)
(* log holds the lines logged from there on                                  *)

MaxRoi == 3           \* ROI bounds and image are 0..MaxRoi pixels wide and high
MaxZoom == 3          \* zoomIn calls that the host's maximum zoom still allows

\* canvas.setSourceRect(Rectangle(...)) of the host: the source rectangle
\* <<width, height>> is the given one, kept to at least one pixel and to the
\* image
SetSourceRect(bounds) ==
    <<Max2(1, Min2(MaxRoi, bounds[1])), Max2(1, Min2(MaxRoi, bounds[2]))>>

\* canvas.zoomIn(x, y) of the host, on the canvas c = [srcRect, zoom], zoom
\* being the zoom levels left below the maximum: at the maximum zoom it does
\* nothing; below it the window grows (same source rectangle) or the source
\* rectangle shrinks, never below one pixel
ZoomIn(c) ==
    IF c.zoom = 0 THEN {c}
    ELSE {[srcRect |-> <<w, h>>, zoom |-> c.zoom - 1] :
             w \in 1..c.srcRect[1], h \in 1..c.srcRect[2]}

H_Init ==
    /\ pc = "select_roi"
    /\ status = "running"
    /\ log = <<>>
    /\ errors = <<>>
    /\ rt = <<>>
    /\ display = DefaultRange
    /\ loc = [bounds |-> Undef, srcRect |-> Undef, zoom |-> MaxZoom,
              upper_value |-> Undef, lower_value |-> Undef]

\* Step 2: the operator has drawn the ROI (or none); the view is set on it.
\* The while loop is entered when the source rectangle exceeds the bounds;
\* Step 3 (window 150, level 450) follows the loop
H_SelectRoi ==
    /\ Running("select_roi")
    /\ log' = IJLog(log, "Zoom adjusted to the selected ROI", NoNum)
    /\ \/ /\ errors' = Append(errors, "No ROI was selected!")
          /\ Halt("exit")
          /\ UNCHANGED <<loc, display>>
       \/ \E w \in 0..MaxRoi, h \in 0..MaxRoi :
             \* no canvas
             /\ loc' = [loc EXCEPT !.bounds = <<w, h>>, !.srcRect = None]
             /\ display' = <<375, 525>>
             /\ pc' = "instructions"
             /\ UNCHANGED <<status, errors>>
       \/ \E w \in 0..MaxRoi, h \in 0..MaxRoi, zoom \in 0..MaxZoom :
             LET r == SetSourceRect(<<w, h>>)
             IN  /\ loc' = [loc EXCEPT !.bounds = <<w, h>>, !.srcRect = r, !.zoom = zoom]
                 /\ IF r[1] > w \/ r[2] > h
                    THEN pc' = "zoom_loop" /\ UNCHANGED display
                    ELSE pc' = "instructions" /\ display' = <<375, 525>>
                 /\ UNCHANGED <<status, errors>>
    /\ UNCHANGED rt

\* one turn of the while loop: two zoomIn calls, then the exit test
H_Zoom ==
    /\ Running("zoom_loop")
    /\ \E c1 \in ZoomIn([srcRect |-> loc.srcRect, zoom |-> loc.zoom]) : \E c2 \in ZoomIn(c1) :
          /\ loc' = [loc EXCEPT !.srcRect = c2.srcRect, !.zoom = c2.zoom]
          /\ IF c2.srcRect[1] <= loc.bounds[1] /\ c2.srcRect[2] <= loc.bounds[2]
             THEN pc' = "instructions" /\ display' = <<375, 525>>
             ELSE UNCHANGED <<pc, display>>
    /\ UNCHANGED <<status, log, errors, rt>>

\* Step 4: the "Instructions" dialog
H_Instructions ==
    /\ Running("instructions")
    /\ \E cancelled \in BOOLEAN :
          IF cancelled
          THEN /\ log' = IJLog(log, "Cancelled.", NoNum)
               /\ Halt("exit")
          ELSE /\ pc' = "values"
               /\ UNCHANGED <<status, log>>
    /\ UNCHANGED <<errors, rt, display, loc>>

\* Step 5: the two hole sizes are entered
H_Values ==
    /\ Running("values")
    /\ \E u \in {CANCEL_SENTINEL, F(1)}, l \in {CANCEL_SENTINEL, Rat(9, 10)} :
          loc' = [loc EXCEPT !.upper_value = GetNumberOrNan(u),
                            !.lower_value = GetNumberOrNan(l)]
    /\ pc' = "finished"
    /\ UNCHANGED <<status, log, errors, rt, display>>

\* Step 6: the final dialog is acknowledged; the values are logged
H_Finish ==
    /\ Running("finished")
    /\ LET text(v) == IF v = NaN THEN [text |-> "NaN"] ELSE PyFormat(v, 1)
       IN  log' = log \o <<Line("Upper hole size [mm]: ", text(loc.upper_value)),
                           Line("Lower hole size [mm]: ", text(loc.lower_value)),
                           Line("---- End of the High Contrast Spatial Resolution Test ----", NoNum),
                           Line("", NoNum)>>
    /\ rt' = <<>>
    /\ display' = DefaultRange
    /\ Halt("done")
    /\ UNCHANGED <<errors, loc>>

H_Next == H_SelectRoi \/ H_Zoom \/ H_Instructions \/ H_Values \/ H_Finish

\* the interpreter keeps running the loop for as long as a turn changes
\* anything; a turn that changes nothing is repeated for ever
SpecHighContrast == H_Init /\ [][H_Next]_vars /\ WF_vars(H_Zoom)

\* C30 (as claimed): the zoom loop ends for every ROI the operator can draw:
\* after finitely many zoomIn calls the script leaves the loop.
C30_ZoomLoopTerminates ==
    (pc = "zoom_loop") ~> (pc # "zoom_loop")

=============================================================================
